---------------------------- MODULE Spec2Model ----------------------------
(***************************************************************************)
(* Model of GenAi-Summariser:                                              *)
(*   question_answering.py  extract_context, find_best_answer,             *)
(*                          highlight_text, get_comprehensive_answer,      *)
(*                          ask_question                                   *)
(*   challenge_mode.py      find_relevant_context, generate_questions,     *)
(*                          evaluate_answer                                *)
(*   ollama_qa.py           OllamaQA.ask_question                          *)
(*   app.py                 the Streamlit session and its events           *)
(* A text is a sequence of one-character strings, so that Python's         *)
(* str.split, ' '.join, slicing, str.strip and str.lower are computed, not *)
(* assumed.  The external models (pipelines, ollama) are nondeterministic  *)
(* choices over what a call can return or raise.                           *)
(***************************************************************************)
EXTENDS Integers, Sequences, FiniteSets, TLC

VARIABLES
    pc,             \* which call is in progress / has returned
    document,       \* document_text
    chunks,         \* extract_context's return value; find_best_answer's local
    idx,            \* find_best_answer: number of chunks the loop has consumed
    best_score,     \* find_best_answer local
    best_answer,    \* find_best_answer local, and its return value
    qa_log,         \* what qa_pipeline did on each chunk, in call order
    hl,             \* highlight_text call: arguments and return value
    ev,             \* evaluate_answer call: arguments, locals and return value
    aq,             \* ask_question call: arguments and return value
    oq,             \* OllamaQA.ask_question call: arguments and return value
    gq,             \* generate_questions call: locals and return value
    app,            \* the Streamlit app: st.session_state, widgets, last event
    calls           \* the external model capabilities invoked so far

vars == <<pc, document, chunks, idx, best_score, best_answer, qa_log, hl, ev,
          aq, oq, gq, app, calls>>
others == <<aq, oq, gq, app, calls>>

---------------------------------------------------------------------------
(* Bounds of the explored inputs.                                          *)

MaxWords == 1801        \* longest document, in words (three chunks)
Near == 1               \* word counts within Near of a multiple of overlap
MaxWordLen == 2         \* word k of a generated document has 1..MaxWordLen chars
MaxScore == 2           \* qa_pipeline scores are 0..MaxScore (units of 1/MaxScore)
MaxTextLen == 4         \* longest text given to highlight_text on its own
MaxWindow == 2          \* largest window given to highlight_text on its own
MaxAnswerWords == 3     \* most words in a generated user answer
MaxContextWords == 2    \* most words in a generated question context

---------------------------------------------------------------------------
(* Program constants.                                                      *)

chunk_size == 1000
overlap == 200

---------------------------------------------------------------------------
(* Text primitives (Python str semantics on sequences of characters).      *)

\* The whitespace characters str.split() and str.strip() act on.
Whitespace == {" ", "\t", "\n"}

Max(a, b) == IF a >= b THEN a ELSE b
Min(a, b) == IF a <= b THEN a ELSE b

\* Python slice s[a:b] for 0 <= a, 0 <= b (0-based, end exclusive, clamped).
Slice(s, a, b) == SubSeq(s, Min(a, Len(s)) + 1, Min(b, Len(s)))

IsWordStart(s, i) == s[i] \notin Whitespace /\ (i = 1 \/ s[i - 1] \in Whitespace)

\* Positions at which a maximal run of non-whitespace begins, ascending.
\* (Balanced recursion: the evaluation depth stays logarithmic in Len(s).)
RECURSIVE WordStarts(_, _, _)
WordStarts(s, lo, hi) ==
    IF lo > hi THEN <<>>
    ELSE IF lo = hi THEN (IF IsWordStart(s, lo) THEN <<lo>> ELSE <<>>)
    ELSE LET mid == (lo + hi) \div 2
         IN  WordStarts(s, lo, mid) \o WordStarts(s, mid + 1, hi)

RECURSIVE WordEnd(_, _)
WordEnd(s, i) ==
    IF i = Len(s) \/ s[i + 1] \in Whitespace THEN i ELSE WordEnd(s, i + 1)

\* str.split(): the maximal runs of non-whitespace, in order.
Split(s) ==
    LET st == WordStarts(s, 1, Len(s))
    IN  [k \in 1..Len(st) |-> SubSeq(s, st[k], WordEnd(s, st[k]))]

\* ' '.join(ws[lo..hi]) (1-based, inclusive).
RECURSIVE JoinRange(_, _, _)
JoinRange(ws, lo, hi) ==
    IF lo > hi THEN <<>>
    ELSE IF lo = hi THEN ws[lo]
    ELSE LET mid == (lo + hi) \div 2
         IN  JoinRange(ws, lo, mid) \o <<" ">> \o JoinRange(ws, mid + 1, hi)

\* sum(len(w) + 1 for w in ws[lo..hi]) (1-based, inclusive).
RECURSIVE SumLenPlusOne(_, _, _)
SumLenPlusOne(ws, lo, hi) ==
    IF lo > hi THEN 0
    ELSE IF lo = hi THEN Len(ws[lo]) + 1
    ELSE LET mid == (lo + hi) \div 2
         IN  SumLenPlusOne(ws, lo, mid) + SumLenPlusOne(ws, mid + 1, hi)

\* Index of the first non-whitespace character at or after i, else Len(s) + 1.
RECURSIVE SkipLeft(_, _)
SkipLeft(s, i) ==
    IF i > Len(s) \/ s[i] \notin Whitespace THEN i ELSE SkipLeft(s, i + 1)

\* Index of the last non-whitespace character at or before i, else 0.
RECURSIVE SkipRight(_, _)
SkipRight(s, i) ==
    IF i < 1 \/ s[i] \notin Whitespace THEN i ELSE SkipRight(s, i - 1)

\* str.strip().
Strip(s) == SubSeq(s, SkipLeft(s, 1), SkipRight(s, Len(s)))

---------------------------------------------------------------------------
(* extract_context (question_answering.py:12-27).                          *)

\* range(0, n, step) as the sequence of its values.
RangeStep(n, step) == [k \in 1..((n + step - 1) \div step) |-> (k - 1) * step]

\* The window start advances by chunk_size - overlap words.
BadStride == chunk_size - overlap + 1
Stride == chunk_size - overlap

\* 'end': sum(len(w) + 1 for w in words[:i + len(chunk.split())]).
ChunkEnd(words, i, chunk) ==
    SumLenPlusOne(words, 1, Min(i + Len(Split(chunk)), Len(words)))

\* One pass of the loop body, for the window that starts at word index i.
MakeChunk(words, i) ==
    LET chunk == JoinRange(words, i + 1, Min(i + chunk_size, Len(words)))
    IN  [text  |-> chunk,
         start |-> SumLenPlusOne(words, 1, i),
         end   |-> ChunkEnd(words, i, chunk)]

extract_context(document_text) ==
    LET words == Split(document_text)
        starts == RangeStep(Len(words), Stride)
    IN  [k \in 1..Len(starts) |-> MakeChunk(words, starts[k])]

---------------------------------------------------------------------------
(* Generated documents.                                                    *)

Letters == <<"a", "b", "c">>

\* Word k: 1 + (k-1) % MaxWordLen copies of a letter that cycles with k.
GenWord(k) == [j \in 1..(1 + ((k - 1) % MaxWordLen)) |-> Letters[1 + ((k - 1) % 3)]]

RECURSIVE GenBody(_, _, _)
GenBody(lo, hi, sep) ==
    IF lo > hi THEN <<>>
    ELSE IF lo = hi THEN GenWord(lo)
    ELSE LET mid == (lo + hi) \div 2
         IN  GenBody(lo, mid, sep) \o sep \o GenBody(mid + 1, hi, sep)

\* How the words of a document are laid out: [lead, sep, trail].
SingleSpaced == [lead |-> <<>>, sep |-> <<" ">>, trail |-> <<>>]
Layouts ==
    { SingleSpaced,
      [lead |-> <<" ">>, sep |-> <<" ">>,      trail |-> <<>>],
      [lead |-> <<>>,    sep |-> <<" ">>,      trail |-> <<" ">>],
      [lead |-> <<>>,    sep |-> <<" ", " ">>, trail |-> <<>>],
      [lead |-> <<>>,    sep |-> <<"\n">>,     trail |-> <<"\n">>] }

GenDoc(n, lay) == lay.lead \o GenBody(1, n, lay.sep) \o lay.trail

\* A document has its words separated by single spaces when it is exactly
\* the single-space join of its own words.
IsSingleSpaced(doc) == LET w == Split(doc) IN doc = JoinRange(w, 1, Len(w))

WordCounts ==
    {n \in 0..MaxWords : n % overlap <= Near \/ n % overlap >= overlap - Near}

ChunkDocs == {GenDoc(n, lay) : n \in WordCounts, lay \in Layouts}

---------------------------------------------------------------------------
(* Values of the variables a specification does not use.                   *)

NoAnswer == [answer |-> <<>>, score |-> 0, start |-> 0, end |-> 0, context |-> <<>>]
NoCall == [state |-> "none"]

---------------------------------------------------------------------------
(* Specification SpecChunk: extract_context on generated documents.        *)

ChunkInit ==
    /\ pc = "chunk_call"
    /\ aq = NoCall /\ oq = NoCall /\ gq = NoCall /\ app = NoCall /\ calls = {}
    /\ document \in ChunkDocs
    /\ chunks = <<>>
    /\ idx = 0
    /\ best_score = 0
    /\ best_answer = NoAnswer
    /\ qa_log = <<>>
    /\ hl = NoCall
    /\ ev = NoCall

ChunkReturn ==
    /\ pc = "chunk_call"
    /\ chunks' = extract_context(document)
    /\ pc' = "chunk_done"
    /\ UNCHANGED <<document, idx, best_score, best_answer, qa_log, hl, ev>>
    /\ UNCHANGED others

ChunkNext == ChunkReturn

SpecChunk == ChunkInit /\ [][ChunkNext]_vars


---------------------------------------------------------------------------
(* find_best_answer (question_answering.py:29-63).                         *)

\* "I couldn't find a clear answer in the document."
CouldNotFind ==
    << "I", " ", "c", "o", "u", "l", "d", "n", "'", "t", " ", "f", "i", "n",
       "d", " ", "a", " ", "c", "l", "e", "a", "r", " ", "a", "n", "s", "w",
       "e", "r", " ", "i", "n", " ", "t", "h", "e", " ", "d", "o", "c", "u",
       "m", "e", "n", "t", "." >>

\* best_answer before the loop (lines 33-39).
BadInitialBestAnswer ==
    [answer |-> CouldNotFind, score |-> 0, start |-> 0, end |-> Len(CouldNotFind),
     context |-> <<>>]
InitialBestAnswer ==
    [answer |-> CouldNotFind, score |-> 0, start |-> 0, end |-> 0, context |-> <<>>]

\* What one qa_pipeline(question, context=chunk text, ...) call can do: raise,
\* or return a span of the context with a score.  The spans explored are the
\* first and the last character of the context.
QAFailed == [ok |-> FALSE]
QASpans(context) == {<<0, 1>>, <<Len(context) - 1, Len(context)>>}
QAOutcomes(context) ==
    {QAFailed} \cup
    { [ok |-> TRUE, answer |-> Slice(context, sp[1], sp[2]), score |-> sc,
       start |-> sp[1], end |-> sp[2]] :
         sp \in QASpans(context), sc \in 0..MaxScore }

\* result['start'] += chunk['start']; result['end'] += chunk['start'].
BadGlobalOffset(chunk, local) == local
GlobalOffset(chunk, local) == chunk.start + local

\* Lines 52-54: the result with document-global offsets and its context.
Remapped(chunk, result) ==
    [answer  |-> result.answer,
     score   |-> result.score,
     start   |-> GlobalOffset(chunk, result.start),
     end     |-> GlobalOffset(chunk, result.end),
     context |-> chunk.text]

\* if result['score'] > best_score
BadIsBetter(score, best) == score >= best
IsBetter(score, best) == score > best

\* except Exception: print(...); continue  -- the locals stay as they are.
BadOnChunkError(best, score) == [pc |-> "fba_raised", best_answer |-> best, best_score |-> score]
OnChunkError(best, score) == [pc |-> "fba_loop", best_answer |-> best, best_score |-> score]

\* One pass of the loop body (lines 42-61) on `chunk` with the pipeline
\* outcome `out`: the next pc, best_answer and best_score.
LoopBody(chunk, out, best, score) ==
    IF ~out.ok THEN OnChunkError(best, score)
    ELSE LET result == Remapped(chunk, out)
         IN  IF IsBetter(result.score, score)
             THEN [pc |-> "fba_loop", best_answer |-> result, best_score |-> result.score]
             ELSE [pc |-> "fba_loop", best_answer |-> best, best_score |-> score]

---------------------------------------------------------------------------
(* Specification SpecQA: find_best_answer, one qa_pipeline call per step.  *)

QALayouts == {SingleSpaced, [lead |-> <<>>, sep |-> <<" ", " ">>, trail |-> <<>>]}
QAWordCounts == {n \in 0..MaxWords : n % Stride <= Near}
QADocs == {GenDoc(n, lay) : n \in QAWordCounts, lay \in QALayouts}

QAInit ==
    /\ pc = "fba_call"
    /\ aq = NoCall /\ oq = NoCall /\ gq = NoCall /\ app = NoCall /\ calls = {}
    /\ document \in QADocs
    /\ chunks = <<>>
    /\ idx = 0
    /\ best_score = 0
    /\ best_answer = NoAnswer
    /\ qa_log = <<>>
    /\ hl = NoCall
    /\ ev = NoCall

\* Lines 31-39.
FBA_Call ==
    /\ pc = "fba_call"
    /\ chunks' = extract_context(document)
    /\ best_score' = 0
    /\ best_answer' = InitialBestAnswer
    /\ idx' = 0
    /\ pc' = "fba_loop"
    /\ UNCHANGED <<document, qa_log, hl, ev>>
    /\ UNCHANGED others

\* Lines 41-61, for the next chunk.
FBA_Chunk ==
    /\ pc = "fba_loop"
    /\ idx < Len(chunks)
    /\ \E out \in QAOutcomes(chunks[idx + 1].text) :
          LET after == LoopBody(chunks[idx + 1], out, best_answer, best_score)
          IN  /\ qa_log' = Append(qa_log, out)
              /\ best_answer' = after.best_answer
              /\ best_score' = after.best_score
              /\ pc' = after.pc
    /\ idx' = idx + 1
    /\ UNCHANGED <<document, chunks, hl, ev>>
    /\ UNCHANGED others

\* Line 63.
FBA_Return ==
    /\ pc = "fba_loop"
    /\ idx = Len(chunks)
    /\ pc' = "fba_done"
    /\ UNCHANGED <<document, chunks, idx, best_score, best_answer, qa_log, hl, ev>>
    /\ UNCHANGED others

QANext == FBA_Call \/ FBA_Chunk \/ FBA_Return

SpecQA == QAInit /\ [][QANext]_vars

---------------------------------------------------------------------------
(* highlight_text (question_answering.py:65-78).                           *)

Ellipsis == <<".", ".", ".">>

\* if start > 0, on the clamped start.
NeedsPrefix(start) == start > 0

\* if end < len(text), on the clamped end.
BadNeedsSuffix(text, end) == end <= Len(text)
NeedsSuffix(text, end) == end < Len(text)

highlight_text(text, start0, end0, window) ==
    LET start == Max(0, start0 - window)
        end == Min(Len(text), end0 + window)
        excerpt == Slice(text, start, end)
        prefixed == IF NeedsPrefix(start) THEN Ellipsis \o excerpt ELSE excerpt
        suffixed == IF NeedsSuffix(text, end) THEN prefixed \o Ellipsis ELSE prefixed
    IN  Strip(suffixed)

---------------------------------------------------------------------------
(* Specification SpecHL: highlight_text on every small text.               *)

HLAlphabet == {"a", " ", "."}
HLTexts == UNION {[1..n -> HLAlphabet] : n \in 0..MaxTextLen}

HLInit ==
    /\ pc = "hl_call"
    /\ aq = NoCall /\ oq = NoCall /\ gq = NoCall /\ app = NoCall /\ calls = {}
    /\ document = <<>>
    /\ chunks = <<>>
    /\ idx = 0
    /\ best_score = 0
    /\ best_answer = NoAnswer
    /\ qa_log = <<>>
    /\ \E t \in HLTexts, s \in 0..MaxTextLen, e \in 0..MaxTextLen, w \in 0..MaxWindow :
          hl = [state |-> "call", text |-> t, start |-> s, end |-> e, window |-> w]
    /\ ev = NoCall

HL_Return ==
    /\ pc = "hl_call"
    /\ hl' = [hl EXCEPT !.state = "done"] @@
             [result |-> highlight_text(hl.text, hl.start, hl.end, hl.window)]
    /\ pc' = "hl_done"
    /\ UNCHANGED <<document, chunks, idx, best_score, best_answer, qa_log, ev>>
    /\ UNCHANGED others

HLNext == HL_Return

SpecHL == HLInit /\ [][HLNext]_vars

---------------------------------------------------------------------------
(* evaluate_answer (challenge_mode.py:121-160).                            *)

\* highlight_text's default window (question_answering.py:65).
DefaultWindow == 100

\* str.lower() on one character of the ASCII range.
UpperAZ == << "A", "B", "C", "D", "E", "F", "G", "H", "I", "J", "K", "L", "M",
              "N", "O", "P", "Q", "R", "S", "T", "U", "V", "W", "X", "Y", "Z" >>
LowerAZ == << "a", "b", "c", "d", "e", "f", "g", "h", "i", "j", "k", "l", "m",
              "n", "o", "p", "q", "r", "s", "t", "u", "v", "w", "x", "y", "z" >>
Lower(c) ==
    IF \E k \in 1..26 : UpperAZ[k] = c
    THEN LowerAZ[CHOOSE k \in 1..26 : UpperAZ[k] = c]
    ELSE c

\* The one code point whose str.lower() is longer than itself: U+0130
\* (capital I with dot above) lowers to "i" followed by U+0307 (combining
\* dot above).  The two code points are written as the elements below.
CapitalIDot == "U+0130"
CombiningDot == "U+0307"

\* str.lower() of a one-character string, as a sequence of characters.
BadLowerChar(c) == <<c>>
LowerChar(c) == IF c = CapitalIDot THEN <<"i", CombiningDot>> ELSE <<Lower(c)>>

\* str.lower() of s[lo..hi]: the characters' lower-casings, concatenated.
RECURSIVE LowerRange(_, _, _)
LowerRange(s, lo, hi) ==
    IF lo > hi THEN <<>>
    ELSE IF lo = hi THEN LowerChar(s[lo])
    ELSE LET mid == (lo + hi) \div 2
         IN  LowerRange(s, lo, mid) \o LowerRange(s, mid + 1, hi)

LowerText(s) == LowerRange(s, 1, Len(s))
LowerWord(w) == LowerText(w)

\* set(word.lower() for word in text.split() if len(word) > 3)
Keywords(text) ==
    LET ws == Split(text)
    IN  {LowerWord(ws[k]) : k \in {j \in 1..Len(ws) : Len(ws[j]) > 3}}

\* len(matching_keywords) / max(1, len(answer_keywords)) > 0.5, in integers.
BadRatioAboveHalf(matching, answer) == 2 * matching >= Max(1, answer)
RatioAboveHalf(matching, answer) == 2 * matching > Max(1, answer)

\* dict.get(key, default)
Get(d, key, default) == IF key \in DOMAIN d THEN d[key] ELSE default

\* if not user_answer.strip()
BadIsBlankAnswer(user_answer) == user_answer = <<>>
IsBlankAnswer(user_answer) == Strip(user_answer) = <<>>

\* Lines 127-132: the result for a blank answer.
BlankResult(question_data) ==
    [is_correct |-> FALSE, feedback |-> "Please provide an answer.",
     reference |-> question_data.context]

\* Lines 141-160: the result, given the keyword sets.
Verdict(question_data, answer_keywords, matching_keywords) ==
    IF RatioAboveHalf(Cardinality(matching_keywords), Cardinality(answer_keywords))
    THEN [is_correct |-> TRUE,
          feedback |-> "Your answer appears to be relevant to the document content.",
          reference |-> highlight_text(question_data.context,
                                       Get(question_data, "answer_start", 0),
                                       Get(question_data, "answer_end", 100),
                                       DefaultWindow)]
    ELSE [is_correct |-> FALSE,
          feedback |-> "Your answer may not fully address the question based on the document content.",
          reference |-> highlight_text(question_data.context,
                                       Get(question_data, "context_start", 0),
                                       Get(question_data, "context_end", 500),
                                       DefaultWindow)]

---------------------------------------------------------------------------
(* Specification SpecEval: evaluate_answer on generated answers/contexts.  *)

Vocabulary ==
    { <<"D", "a", "t", "a">>, <<"d", "a", "t", "a">>, <<"m", "o", "d", "e", "l">>,
      <<"t", "e", "x", "t">>, <<"t", "h", "e">> }

WordSeqs(n) == UNION {[1..k -> Vocabulary] : k \in 0..n}

\* The words laid out as a text: lead, words joined by sep, trail.
RECURSIVE LayOut(_, _)
LayOut(ws, sep) ==
    IF ws = <<>> THEN <<>>
    ELSE IF Len(ws) = 1 THEN ws[1]
    ELSE ws[1] \o sep \o LayOut(Tail(ws), sep)

BlankAnswers == {<<>>, <<" ">>, <<"\n", " ">>}
UserAnswers ==
    BlankAnswers
    \cup {LayOut(ws, <<" ">>) : ws \in WordSeqs(MaxAnswerWords)}
    \cup {<<" ">> \o LayOut(ws, <<"\n">>) \o <<" ">> : ws \in WordSeqs(MaxAnswerWords - 1)}
Contexts ==
    {LayOut(ws, <<" ">>) : ws \in WordSeqs(MaxContextWords)}
    \cup {LayOut(ws, <<" ">>) \o <<"\n">> : ws \in WordSeqs(MaxContextWords - 1)}

\* A question item as generate_questions builds it (lines 83-88, 98-117).
QuestionItem(context) ==
    [question |-> "What is the main topic of the document?",
     context |-> context, context_start |-> 0, context_end |-> Len(context)]

Unset == "unset"

EvInit ==
    /\ pc = "ev_call"
    /\ aq = NoCall /\ oq = NoCall /\ gq = NoCall /\ app = NoCall /\ calls = {}
    /\ document = <<>>
    /\ chunks = <<>>
    /\ idx = 0
    /\ best_score = 0
    /\ best_answer = NoAnswer
    /\ qa_log = <<>>
    /\ hl = NoCall
    /\ \E c \in Contexts, a \in UserAnswers :
          ev = [state |-> "call", question_data |-> QuestionItem(c), user_answer |-> a,
                answer_keywords |-> Unset, context_keywords |-> Unset,
                matching_keywords |-> Unset, result |-> Unset]

\* Lines 127-132: if not user_answer.strip(): return ...
EV_ReturnBlank ==
    /\ pc = "ev_call"
    /\ IsBlankAnswer(ev.user_answer)
    /\ ev' = [ev EXCEPT !.state = "done", !.result = BlankResult(ev.question_data)]
    /\ pc' = "ev_done"
    /\ UNCHANGED <<document, chunks, idx, best_score, best_answer, qa_log, hl>>
    /\ UNCHANGED others

\* Lines 135-160.
EV_ReturnVerdict ==
    /\ pc = "ev_call"
    /\ ~IsBlankAnswer(ev.user_answer)
    /\ LET answer_keywords == Keywords(ev.user_answer)
           context_keywords == Keywords(ev.question_data.context)
           matching_keywords == answer_keywords \cap context_keywords
       IN  ev' = [ev EXCEPT !.state = "done",
                            !.answer_keywords = answer_keywords,
                            !.context_keywords = context_keywords,
                            !.matching_keywords = matching_keywords,
                            !.result = Verdict(ev.question_data, answer_keywords,
                                               matching_keywords)]
    /\ pc' = "ev_done"
    /\ UNCHANGED <<document, chunks, idx, best_score, best_answer, qa_log, hl>>
    /\ UNCHANGED others

EvNext == EV_ReturnBlank \/ EV_ReturnVerdict

SpecEval == EvInit /\ [][EvNext]_vars

---------------------------------------------------------------------------
(* ask_question and get_comprehensive_answer                               *)
(* (question_answering.py:80-177).  The fixed texts the code returns are   *)
(* kept whole, as one-element sequences.                                   *)

\* str.find: the lowest 0-based index at which needle occurs in hay, or -1.
Find(hay, needle) ==
    LET at == {p \in 0..(Len(hay) - Len(needle)) :
                  SubSeq(hay, p + 1, p + Len(needle)) = needle}
    IN  IF at = {} THEN -1 ELSE CHOOSE p \in at : \A q \in at : p <= q

\* needle in hay
Contains(hay, needle) == Find(hay, needle) >= 0

\* The phrases get_comprehensive_answer looks for (lines 84-88).
TriggerPhrases ==
    { <<"t", "r", "a", "n", "s", "f", "o", "r", "m", "e", "r">>,
      <<"t", "r", "a", "n", "s", "f", "o", "r", "m", "e", "r", "s">>,
      <<"w", "h", "a", "t", " ", "i", "s", " ", "a", " ",
        "t", "r", "a", "n", "s", "f", "o", "r", "m", "e", "r">>,
      <<"w", "h", "a", "t", " ", "a", "r", "e", " ",
        "t", "r", "a", "n", "s", "f", "o", "r", "m", "e", "r", "s">>,
      <<"e", "x", "p", "l", "a", "i", "n", " ",
        "t", "r", "a", "n", "s", "f", "o", "r", "m", "e", "r">> }

None == [none |-> TRUE]

\* The canned result (lines 91-107); confidence in tenths of a percent.
ComprehensiveAnswer ==
    [answer |-> <<"A transformer is a deep learning model architecture ...">>,
     context |-> <<"The document discusses technical details about transformers ...">>,
     highlight |-> <<"t", "r", "a", "n", "s", "f", "o", "r", "m", "e", "r">>,
     confidence |-> 950,
     is_comprehensive |-> TRUE]

get_comprehensive_answer(document_text, question) ==
    LET question_lower == LowerText(question)
        is_about_transformers == \E t \in TriggerPhrases : Contains(question_lower, t)
    IN  IF is_about_transformers THEN ComprehensiveAnswer ELSE None

\* Lines 116-123.
NoDocumentResult ==
    [answer |-> <<"No document text provided.">>, confidence |-> 0, context |-> <<>>,
     highlight |-> <<>>, full_context |-> <<>>, is_comprehensive |-> FALSE]

\* find_best_answer as one call: the loop body applied to the chunks in
\* order, with the pipeline outcome outs[k] on chunk k.
RECURSIVE RunLoop(_, _, _, _)
RunLoop(chs, outs, k, st) ==
    IF k > Len(chs) \/ st.pc = "fba_raised" THEN st
    ELSE RunLoop(chs, outs, k + 1,
                 LoopBody(chs[k], outs[k], st.best_answer, st.best_score))

find_best_answer(document_text, outs) ==
    RunLoop(extract_context(document_text), outs, 1,
            [pc |-> "fba_loop", best_answer |-> InitialBestAnswer, best_score |-> 0])

\* The pipeline outcomes that can meet the chunks chs, one per chunk.
OutcomeVectors(chs) ==
    {outs \in [1..Len(chs) -> UNION {QAOutcomes(chs[k].text) : k \in 1..Len(chs)}] :
        \A k \in 1..Len(chs) : outs[k] \in QAOutcomes(chs[k].text)}

\* The highlight marker put around the answer (line 152).
MarkOpen == "<span class=\"highlight\">"
MarkClose == "</span>"

\* Lines 144-157: the context with the answer marked.
Highlighted(context, answer) ==
    LET answer_lower == LowerText(answer)
        context_lower == LowerText(context)
        pos == Find(context_lower, answer_lower)
    IN  IF pos >= 0
        THEN LET actual_answer == Slice(context, pos, pos + Len(answer))
             IN  Slice(context, 0, pos) \o <<MarkOpen>> \o actual_answer \o <<MarkClose>>
                   \o Slice(context, pos + Len(actual_answer), Len(context))
        ELSE context

\* document_text[:1000] (lines 166, 176).
FullContextLimit == 1000

\* round(score * 100, 1), in tenths of a percent, for a score of
\* score / MaxScore.
Confidence(score) == (2 * 1000 * score + MaxScore) \div (2 * MaxScore)

\* Lines 129-177, given what find_best_answer did: fba.pc = "fba_raised" when
\* it raised, else fba.best_answer is its return value.
Extractive(document_text, fba) ==
    IF fba.pc = "fba_raised"
    THEN [answer |-> <<"Error processing your question: ">>,
          confidence |-> 0,
          context |-> <<"An error occurred while processing the document.">>,
          highlight |-> <<>>,
          full_context |-> Slice(document_text, 0, FullContextLimit)]
    ELSE LET result == fba.best_answer
             answer == Get(result, "answer", CouldNotFind)
             context == Get(result, "context", <<>>)
             highlighted_context ==
                 IF context # <<>> THEN Highlighted(context, answer) ELSE context
         IN  [answer |-> answer,
              confidence |-> Confidence(Get(result, "score", 0)),
              context |-> IF highlighted_context # <<>> THEN highlighted_context
                          ELSE <<"No specific context found.">>,
              highlight |-> answer,
              full_context |-> IF context # <<>> THEN context
                               ELSE Slice(document_text, 0, FullContextLimit)]

ask_question(document_text, user_question, outs) ==
    IF Strip(document_text) = <<>> THEN NoDocumentResult
    ELSE LET comprehensive_answer == get_comprehensive_answer(document_text, user_question)
         IN  IF comprehensive_answer # None THEN comprehensive_answer
             ELSE Extractive(document_text, find_best_answer(document_text, outs))

---------------------------------------------------------------------------
(* Specification SpecAsk: one ask_question call.                           *)

\* Questions: a core, alone or inside a sentence.
QuestionCores ==
    { <<"t", "r", "a", "n", "s", "f", "o", "r", "m", "e", "r">>,
      <<"T", "R", "A", "N", "S", "F", "O", "R", "M", "E", "R">>,
      <<"T", "r", "a", "n", "s", "f", "o", "r", "m", "e", "r", "s">>,
      <<"t", "r", "a", "n", "s", "f", "o", "r", "m", "r">>,
      <<"t", "r", "a", "n", "s", " ", "f", "o", "r", "m", "e", "r">>,
      <<"d", "a", "t", "a">> }
Questions ==
    {pre \o core \o post : pre \in {<<>>, <<"a", " ">>}, core \in QuestionCores,
                           post \in {<<>>, <<"?">>}}

\* Documents: blank ones, short ones in mixed case, and generated ones.
AskDocs ==
    { <<>>, <<" ">>, <<"\n", " ">>,
      <<"A", " ", "a">>, <<"a", "b", " ", "A", "b">>, <<"b", "A", " ", "a">>,
      <<CapitalIDot, " ", "a">>, <<"a", " ", CapitalIDot>>,
      GenDoc(2, SingleSpaced), GenDoc(1, SingleSpaced) }

AskInit ==
    /\ pc = "aq_call"
    /\ document \in AskDocs
    /\ \E q \in Questions : aq = [state |-> "call", user_question |-> q]
    /\ chunks = <<>>
    /\ idx = 0
    /\ best_score = 0
    /\ best_answer = NoAnswer
    /\ qa_log = <<>>
    /\ hl = NoCall /\ ev = NoCall /\ oq = NoCall /\ gq = NoCall /\ app = NoCall /\ calls = {}

\* Lines 115-123: no document text.
AQ_ReturnNoDocument ==
    /\ pc = "aq_call"
    /\ Strip(document) = <<>>
    /\ aq' = [aq EXCEPT !.state = "done"] @@
             [result |-> ask_question(document, aq.user_question, <<>>)]
    /\ pc' = "aq_done"
    /\ UNCHANGED <<document, chunks, idx, best_score, best_answer, qa_log, hl, ev,
                   oq, gq, app, calls>>

\* Lines 125-127: the canned answer.
AQ_ReturnComprehensive ==
    /\ pc = "aq_call"
    /\ Strip(document) # <<>>
    /\ get_comprehensive_answer(document, aq.user_question) # None
    /\ aq' = [aq EXCEPT !.state = "done"] @@
             [result |-> ask_question(document, aq.user_question, <<>>)]
    /\ pc' = "aq_done"
    /\ UNCHANGED <<document, chunks, idx, best_score, best_answer, qa_log, hl, ev,
                   oq, gq, app, calls>>

\* Lines 129-177: find_best_answer runs (qa_pipeline once per chunk, with the
\* outcomes outs), then the answer is marked in its context.
AQ_ReturnExtractive ==
    /\ pc = "aq_call"
    /\ Strip(document) # <<>>
    /\ get_comprehensive_answer(document, aq.user_question) = None
    /\ \E outs \in OutcomeVectors(extract_context(document)) :
          LET fba == find_best_answer(document, outs)
          IN  /\ chunks' = extract_context(document)
              /\ qa_log' = outs
              /\ idx' = Len(outs)
              /\ best_answer' = fba.best_answer
              /\ best_score' = fba.best_score
              /\ aq' = [aq EXCEPT !.state = "done"] @@
                       [result |-> ask_question(document, aq.user_question, outs)]
              /\ calls' = calls \cup {[capability |-> "qa_pipeline", document |-> document]}
    /\ pc' = "aq_done"
    /\ UNCHANGED <<document, hl, ev, oq, gq, app>>

AskNext == AQ_ReturnNoDocument \/ AQ_ReturnComprehensive \/ AQ_ReturnExtractive

SpecAsk == AskInit /\ [][AskNext]_vars

---------------------------------------------------------------------------
(* OllamaQA.ask_question (ollama_qa.py:28-83).                             *)

\* self.model_name as app.py constructs the object (ollama_qa.py:6).
model_name == "llama3:instruct"

\* context[:1000] and answer[:200] (lines 68-69).
OllamaContextLimit == 1000
OllamaHighlightLimit == 200

\* What ollama.generate(...) can do: raise, or return a response whose
\* 'response' field is a text.
GenerateFailed == [ok |-> FALSE]
ResponseTexts ==
    { <<>>, <<" ">>, <<"\n", " ", "\n">>, <<"o", "k">>, <<" ", "o", "k", "\n">>,
      GenDoc(OllamaHighlightLimit, SingleSpaced) }
GenerateOutcomes == {GenerateFailed} \cup {[ok |-> TRUE, response |-> t] : t \in ResponseTexts}

\* Lines 63-64: if not answer: answer = "I couldn't generate a response. ..."
EmptyAnswerText ==
    <<"I couldn't generate a response. The model returned an empty answer.">>
BadOrEmptyAnswerText(answer) == answer
OrEmptyAnswerText(answer) == IF answer = <<>> THEN EmptyAnswerText ELSE answer

\* The whole method, given what ollama.generate did; confidence in tenths of
\* a percent.
OllamaQA_ask_question(context, question, outcome) ==
    IF outcome.ok
    THEN LET answer == OrEmptyAnswerText(Strip(outcome.response))
         IN  [answer |-> answer,
              context |-> Slice(context, 0, OllamaContextLimit)
                            \o (IF Len(context) > OllamaContextLimit THEN Ellipsis ELSE <<>>),
              highlight |-> Slice(answer, 0, OllamaHighlightLimit),
              confidence |-> IF answer # <<>> THEN 900 ELSE 0,
              is_comprehensive |-> TRUE,
              model |-> model_name]
    ELSE [answer |-> <<"Error getting response from Ollama: ">>,
          context |-> <<>>,
          highlight |-> <<>>,
          confidence |-> 0,
          is_comprehensive |-> FALSE,
          model |-> model_name]

\* One invocation of the generative backend on behalf of `doc`.
OllamaCall(doc) == [capability |-> "ollama.generate", document |-> doc]

---------------------------------------------------------------------------
(* Specification SpecOllama: one OllamaQA.ask_question call.               *)

OllamaContexts == AskDocs \cup {GenDoc(Stride, SingleSpaced)}

OllamaInit ==
    /\ pc = "oq_call"
    /\ \E c \in OllamaContexts, q \in Questions :
          oq = [state |-> "call", context |-> c, question |-> q]
    /\ document = <<>>
    /\ chunks = <<>>
    /\ idx = 0
    /\ best_score = 0
    /\ best_answer = NoAnswer
    /\ qa_log = <<>>
    /\ hl = NoCall /\ ev = NoCall /\ aq = NoCall /\ gq = NoCall /\ app = NoCall /\ calls = {}

\* Lines 40-73: ollama.generate returned.
OQ_ReturnAnswer ==
    /\ pc = "oq_call"
    /\ \E outcome \in GenerateOutcomes :
          /\ outcome.ok
          /\ oq' = [oq EXCEPT !.state = "done"] @@
                   [outcome |-> outcome,
                    result |-> OllamaQA_ask_question(oq.context, oq.question, outcome)]
    /\ calls' = calls \cup {OllamaCall(oq.context)}
    /\ pc' = "oq_done"
    /\ UNCHANGED <<document, chunks, idx, best_score, best_answer, qa_log, hl, ev, aq, gq,
                   app>>

\* Lines 75-83: except Exception.
OQ_ReturnError ==
    /\ pc = "oq_call"
    /\ oq' = [oq EXCEPT !.state = "done"] @@
             [outcome |-> GenerateFailed,
              result |-> OllamaQA_ask_question(oq.context, oq.question, GenerateFailed)]
    /\ calls' = calls \cup {OllamaCall(oq.context)}
    /\ pc' = "oq_done"
    /\ UNCHANGED <<document, chunks, idx, best_score, best_answer, qa_log, hl, ev, aq, gq,
                   app>>

OllamaNext == OQ_ReturnAnswer \/ OQ_ReturnError

SpecOllama == OllamaInit /\ [][OllamaNext]_vars

---------------------------------------------------------------------------
(* find_relevant_context, generate_questions (challenge_mode.py:15-119)    *)
(* and evaluate_answer as one call (challenge_mode.py:121-160).            *)

\* document_text[:500] (lines 20-22).
DefaultContextLimit == 500

\* What one qa_pipeline call of find_relevant_context can do: raise, or
\* return a result with a score.
RelevanceOutcomes == {[ok |-> FALSE]} \cup {[ok |-> TRUE, score |-> sc] : sc \in 0..MaxScore}

\* Lines 25-46: the loop over the chunks from chunk k on, rel[k] being the
\* pipeline outcome on chunk k.
RECURSIVE RelevantLoop(_, _, _, _, _)
RelevantLoop(chs, rel, k, best_chunk, score) ==
    IF k > Len(chs) THEN best_chunk
    ELSE IF rel[k].ok /\ rel[k].score > score
         THEN RelevantLoop(chs, rel, k + 1,
                           [text |-> chs[k].text, start |-> chs[k].start,
                            end |-> chs[k].end, score |-> rel[k].score],
                           rel[k].score)
         ELSE RelevantLoop(chs, rel, k + 1, best_chunk, score)

find_relevant_context(document_text, rel) ==
    RelevantLoop(extract_context(document_text), rel, 1,
                 [text |-> Slice(document_text, 0, DefaultContextLimit),
                  start |-> 0,
                  end |-> Min(DefaultContextLimit, Len(document_text))],
                 0)

\* key_chunks = chunks[:3]; if len(questions) >= 3: break.
KeyChunkLimit == 3
QuestionLimit == 3
key_chunks(chs) == SubSeq(chs, 1, Min(KeyChunkLimit, Len(chs)))

\* The text after the last occurrence of sep in s (all of s without one).
AfterLast(s, sep) ==
    LET at == {p \in 0..(Len(s) - Len(sep)) : SubSeq(s, p + 1, p + Len(sep)) = sep}
    IN  IF at = {} THEN s
        ELSE SubSeq(s, (CHOOSE p \in at : \A q \in at : q <= p) + Len(sep) + 1, Len(s))

\* The text before the first occurrence of the character c in s.
BeforeFirst(s, c) ==
    LET at == {p \in 1..Len(s) : s[p] = c}
    IN  IF at = {} THEN s ELSE SubSeq(s, 1, (CHOOSE p \in at : \A q \in at : p <= q) - 1)

\* Line 79: output.split('Question:')[-1].split('?')[0].strip() + '?'
QuestionMarker == <<"Q", "u", "e", "s", "t", "i", "o", "n", ":">>
ParseQuestion(output) ==
    Strip(BeforeFirst(AfterLast(output, QuestionMarker), "?")) \o <<"?">>

\* What generator(prompt, ...) can do: raise, or return the prompt (which
\* ends in "Question:") followed by generated text.
GeneratedTexts ==
    { QuestionMarker \o <<" ", "a", "b", "?", " ", "c">>, QuestionMarker }

\* What can happen in one pass of the loop over key_chunks: the generator
\* raises, or it returns a text and find_relevant_context meets the pipeline
\* outcomes rel on the n chunks of the document.
GenerationOutcomes(n) ==
    {[ok |-> FALSE]} \cup
    {[ok |-> TRUE, generated_text |-> t, rel |-> r] :
        t \in GeneratedTexts, r \in [1..n -> RelevanceOutcomes]}

\* Lines 59-95: one pass of the loop body, with the outcome gen.
QuestionStep(document_text, gen, questions) ==
    IF ~gen.ok THEN questions
    ELSE LET question == ParseQuestion(gen.generated_text)
             context == find_relevant_context(document_text, gen.rel)
         IN  Append(questions,
                    [question |-> question,
                     context |-> context.text,
                     context_start |-> context.start,
                     context_end |-> context.end])

\* Lines 97-117: the three fallback questions.
FallbackLimit == 1000
FallbackQuestions(document_text) ==
    LET n == Len(document_text)
    IN  << [question |-> <<"What is the main topic of the document?">>,
            context |-> Slice(document_text, 0, FallbackLimit),
            context_start |-> 0,
            context_end |-> Min(FallbackLimit, n)],
           [question |-> <<"What are the key points mentioned in the document?">>,
            context |-> IF n > FallbackLimit
                        THEN Slice(document_text, FallbackLimit, 2 * FallbackLimit)
                        ELSE document_text,
            context_start |-> IF n > FallbackLimit THEN FallbackLimit ELSE 0,
            context_end |-> Min(2 * FallbackLimit, n)],
           [question |-> <<"What conclusions or recommendations does the document present?">>,
            context |-> IF n > FallbackLimit
                        THEN Slice(document_text, n - FallbackLimit, n)
                        ELSE document_text,
            context_start |-> Max(0, n - FallbackLimit),
            context_end |-> n] >>

OrFallback(document_text, questions) ==
    IF questions = <<>> THEN FallbackQuestions(document_text) ELSE questions

\* The loop over key_chunks from pass k on, gens[k] being the outcome of
\* pass k.
RECURSIVE QuestionLoop(_, _, _, _, _)
QuestionLoop(document_text, n, gens, k, questions) ==
    IF k > n \/ Len(questions) >= QuestionLimit THEN questions
    ELSE QuestionLoop(document_text, n, gens, k + 1,
                      QuestionStep(document_text, gens[k], questions))

generate_questions(document_text, gens) ==
    LET n == Len(key_chunks(extract_context(document_text)))
    IN  OrFallback(document_text, QuestionLoop(document_text, n, gens, 1, <<>>))

evaluate_answer(question_data, user_answer) ==
    IF IsBlankAnswer(user_answer) THEN BlankResult(question_data)
    ELSE LET answer_keywords == Keywords(user_answer)
             context_keywords == Keywords(question_data.context)
             matching_keywords == answer_keywords \cap context_keywords
         IN  Verdict(question_data, answer_keywords, matching_keywords)

---------------------------------------------------------------------------
(* Specification SpecChallenge: generate_questions, one key chunk per      *)
(* step, then evaluate_answer on one of the returned question items.       *)

ChallengeWordCounts ==
    {n \in 1..(Stride + Near) : n <= Near \/ n = chunk_size \div 2 \/ n >= Stride}
ChallengeDocs ==
    {<<>>, <<" ">>} \cup {GenDoc(n, SingleSpaced) : n \in ChallengeWordCounts}
ChallengeAnswers == {<<" ">>, <<"d", "a", "t", "a">>}

ChallengeInit ==
    /\ pc = "gq_call"
    /\ document \in ChallengeDocs
    /\ gq = [state |-> "call"]
    /\ chunks = <<>>
    /\ idx = 0
    /\ best_score = 0
    /\ best_answer = NoAnswer
    /\ qa_log = <<>>
    /\ hl = NoCall /\ ev = NoCall /\ aq = NoCall /\ oq = NoCall /\ app = NoCall
    /\ calls = {}

\* Lines 53-56.
GQ_Call ==
    /\ pc = "gq_call"
    /\ chunks' = extract_context(document)
    /\ gq' = [state |-> "loop", k |-> 0, questions |-> <<>>]
    /\ pc' = "gq_loop"
    /\ UNCHANGED <<document, idx, best_score, best_answer, qa_log, hl, ev, aq, oq, app,
                   calls>>

\* Lines 58-95: one pass of the loop over key_chunks.
GQ_Chunk ==
    /\ pc = "gq_loop"
    /\ gq.k < Len(key_chunks(chunks))
    /\ Len(gq.questions) < QuestionLimit
    /\ \E gen \in GenerationOutcomes(Len(chunks)) :
          gq' = [gq EXCEPT !.k = @ + 1,
                           !.questions = QuestionStep(document, gen, @)]
    /\ UNCHANGED <<pc, document, chunks, idx, best_score, best_answer, qa_log, hl, ev,
                   aq, oq, app, calls>>

\* Lines 97-119: the loop is over; fall back if it produced nothing.
GQ_Return ==
    /\ pc = "gq_loop"
    /\ gq.k >= Len(key_chunks(chunks)) \/ Len(gq.questions) >= QuestionLimit
    /\ gq' = [gq EXCEPT !.state = "done", !.questions = OrFallback(document, @)]
    /\ pc' = "gq_done"
    /\ UNCHANGED <<document, chunks, idx, best_score, best_answer, qa_log, hl, ev,
                   aq, oq, app, calls>>

\* app.py:370: evaluate_answer(question_data, user_answer) on one item.
EV_Call ==
    /\ pc = "gq_done"
    /\ \E i \in 1..Len(gq.questions), a \in ChallengeAnswers :
          ev' = [state |-> "call", question_data |-> gq.questions[i], user_answer |-> a,
                 answer_keywords |-> Unset, context_keywords |-> Unset,
                 matching_keywords |-> Unset, result |-> Unset]
    /\ pc' = "ev_call"
    /\ UNCHANGED <<document, chunks, idx, best_score, best_answer, qa_log, hl, aq, oq,
                   gq, app, calls>>

ChallengeNext == GQ_Call \/ GQ_Chunk \/ GQ_Return \/ EV_Call \/ EV_ReturnBlank \/ EV_ReturnVerdict

SpecChallenge == ChallengeInit /\ [][ChallengeNext]_vars

---------------------------------------------------------------------------
(* The Streamlit app (app.py).  `app` holds st.session_state, the uploader *)
(* widget and USE_OLLAMA; each action is one user event: the script run it *)
(* triggers and, where the handler ends in st.rerun(), the run after it.   *)
(* The operators below work on a record w that is `app` plus the field     *)
(* `calls`, the model capabilities invoked so far.                         *)

MaxChats == 1           \* bound: chat prompts per session

\* Lines 14-15, 95-107, 169-170: a fresh session.
SessionInit(use_ollama) ==
    [USE_OLLAMA |-> use_ollama,
     uploaded_file |-> None,
     document_text |-> <<>>,
     summary |-> <<>>,
     questions |-> <<>>,
     show_questions |-> FALSE,
     user_answers |-> <<>>,
     show_results |-> FALSE,
     messages |-> <<>>,
     event |-> "start",        \* the last user event
     evaluated |-> <<>>]       \* indices evaluate_answer was called on in it

\* The files a user can upload: extract_text_from_file raises on the file,
\* or returns its text.
AppDocument == <<"d", "a", "t", "a", " ", "t", "e", "x", "t">>
Files ==
    {[ok |-> FALSE]} \cup {[ok |-> TRUE, text |-> t] : t \in {<<>>, <<" ">>, AppDocument}}

\* What the user types: a chat prompt, an answer to a challenge question.
Prompts == { <<"d", "a", "t", "a">> }
AppAnswers == { <<>>, <<" ">>, <<"d", "a", "t", "a">> }

\* What the backend does when the app asks: ollama.generate raises or
\* answers; qa_pipeline, on each chunk, raises or finds the chunk's first
\* character with the highest score.
AppGenerateOutcomes == {GenerateFailed, [ok |-> TRUE, response |-> <<" ", "o", "k">>]}
AppOutcomeVectors(chs) ==
    {outs \in OutcomeVectors(chs) :
        \A k \in 1..Len(chs) : outs[k].ok => (outs[k].score = MaxScore /\ outs[k].start = 0)}

\* One invocation of an external model capability on behalf of `doc`.
Invoked(capability, doc) == [capability |-> capability, document |-> doc]

\* Lines 128-145: document processing.  summary_ok: generate_summary returned.
NeedsProcessing(w) == w.uploaded_file # None /\ w.document_text = <<>>
ProcessDocument(w, summary_ok) ==
    IF ~NeedsProcessing(w) THEN w
    ELSE IF ~w.uploaded_file.ok THEN w
    ELSE LET text == w.uploaded_file.text
             w1 == [w EXCEPT !.document_text = text,
                             !.calls = @ \cup {Invoked("summarizer", text)}]
         IN  IF ~summary_ok THEN w1
             ELSE [w1 EXCEPT !.summary = <<"summary">>,
                             !.questions = <<>>,
                             !.user_answers = <<>>,
                             !.show_questions = FALSE,
                             !.show_results = FALSE]
SummaryOutcomes(w) ==
    IF NeedsProcessing(w) /\ w.uploaded_file.ok THEN BOOLEAN ELSE {TRUE}

\* Lines 300, 310: the questions are on screen; their 0-based indices.
Shown(w) == w.show_questions /\ w.questions # <<>>
Indices(w) == 0..(Len(w.questions) - 1)

\* Lines 320-325: the record of question i, created on first display.
Record(w, i) ==
    IF i \in DOMAIN w.user_answers THEN w.user_answers[i]
    ELSE [answer |-> <<>>, evaluation |-> None,
          context |-> Get(w.questions[i + 1], "context", <<>>)]

\* Line 332: disabled=st.session_state.show_results
BadDisabled(w) == FALSE
Disabled(w) == w.show_results

\* Lines 327-333: what st.text_area(value=..., key=f"answer_{i}") can return:
\* the text the widget holds (held[i], when the browser has the widget), or
\* its `value` argument when Streamlit builds the widget anew.
TextAreaValues(w, held, i) ==
    {Record(w, i).answer} \cup (IF i \in DOMAIN held THEN {held[i]} ELSE {})
Returned(w, held) ==
    IF ~Shown(w) THEN {<<>>}
    ELSE {r \in [Indices(w) -> UNION {TextAreaValues(w, held, i) : i \in Indices(w)}] :
             \A i \in Indices(w) : r[i] \in TextAreaValues(w, held, i)}

\* Lines 300-353: the loop that displays the questions; returned[i] is what
\* the text area of question i returned.  (Lines 303-308 and 314-316 handle
\* questions that are plain strings; generate_questions returns only dicts.)
RenderQuestions(w, returned) ==
    IF ~Shown(w) THEN w
    ELSE LET ua == w.user_answers
         IN  [w EXCEPT !.user_answers =
                 [i \in DOMAIN ua \cup Indices(w) |->
                     IF i \in Indices(w) THEN [Record(w, i) EXCEPT !.answer = returned[i]]
                     ELSE ua[i]]]

\* The texts the text areas hold after a run that displayed them.
Held(w) ==
    IF Shown(w) THEN [i \in Indices(w) |-> w.user_answers[i].answer] ELSE <<>>

\* Lines 45-49 and 193: the ask_question wrapper, with what the backend did
\* (an ollama.generate outcome, or one pipeline outcome per chunk).
AskOutcomes(w) ==
    IF w.USE_OLLAMA THEN AppGenerateOutcomes
    ELSE AppOutcomeVectors(extract_context(w.document_text))
app_ask_question(w, question, outcome) ==
    IF w.USE_OLLAMA THEN OllamaQA_ask_question(w.document_text, question, outcome)
    ELSE ask_question(w.document_text, question, outcome)
AskCalls(w, question) ==
    IF w.USE_OLLAMA THEN {OllamaCall(w.document_text)}
    ELSE IF Strip(w.document_text) # <<>>
            /\ get_comprehensive_answer(w.document_text, question) = None
         THEN {Invoked("qa_pipeline", w.document_text)}
         ELSE {}

\* Lines 196-263: what the assistant message shows of the result.
Response(result) ==
    IF Get(result, "is_comprehensive", FALSE)
    THEN [answer |-> result.answer]
    ELSE [answer |-> result.answer,
          confidence |-> result.confidence,
          confidence_class |-> IF result.confidence > 700 THEN "confidence-high"
                               ELSE IF result.confidence > 300 THEN "confidence-medium"
                               ELSE "confidence-low",
          context |-> Get(result, "context", <<>>)]

\* Lines 178-275: the chat handler.
Chat(w, prompt, outcome) ==
    LET result == app_ask_question(w, prompt, outcome)
    IN  [w EXCEPT !.messages = @ \o << [role |-> "user", content |-> prompt],
                                       [role |-> "assistant", content |-> Response(result)] >>,
                  !.calls = @ \cup AskCalls(w, prompt)]

\* Lines 286-295: the Generate Challenge Questions handler.
GenerateCalls(w) ==
    IF extract_context(w.document_text) = <<>> THEN {}
    ELSE {Invoked("generator", w.document_text)}
Generate(w, gens) ==
    [w EXCEPT !.questions = generate_questions(w.document_text, gens),
              !.show_questions = TRUE,
              !.show_results = FALSE,
              !.user_answers = <<>>,
              !.calls = @ \cup GenerateCalls(w)]
\* What the models do while the app generates questions: on each key chunk
\* the generator raises, or it returns a question and the pipeline scores
\* every chunk highest.
AppGenerationVectors(document_text) ==
    LET chs == extract_context(document_text)
        top == [k \in 1..Len(chs) |-> [ok |-> TRUE, score |-> MaxScore]]
    IN  [1..Len(key_chunks(chs)) ->
            {g \in GenerationOutcomes(Len(chs)) :
                g.ok => (g.rel = top /\ g.generated_text # QuestionMarker)}]

\* Line 359: all(ans['answer'].strip() for ans in user_answers.values())
BadAllAnswered(ua) == TRUE
AllAnswered(ua) == \A i \in DOMAIN ua : Strip(ua[i].answer) # <<>>

\* Lines 363-375: the evaluation stored for question i.
AppFullContextLimit == 1000
Evaluation(w, i) ==
    LET question_data == w.questions[i + 1]
        context == Get(question_data, "context", <<>>)
    IN  evaluate_answer(question_data, w.user_answers[i].answer)
          @@ [full_context |-> IF context # <<>> THEN context
                               ELSE Slice(w.document_text, 0, AppFullContextLimit)]

\* Lines 358-376: the Submit All Answers handler, up to its st.rerun().
Submit(w) ==
    IF ~AllAnswered(w.user_answers) THEN w
    ELSE LET ua == w.user_answers
         IN  [w EXCEPT !.user_answers =
                          [i \in DOMAIN ua |->
                              IF i \in Indices(w)
                              THEN [ua[i] EXCEPT !.evaluation = Evaluation(w, i)]
                              ELSE ua[i]],
                       !.show_results = TRUE,
                       !.evaluated = [k \in 1..Len(w.questions) |-> k - 1]]

\* Lines 380-382: Reset Answers.
Reset(w) == [w EXCEPT !.user_answers = <<>>]

\* Lines 384-387: Try Again with New Questions.
TryAgain(w) == [w EXCEPT !.show_questions = FALSE, !.show_results = FALSE]

---------------------------------------------------------------------------
(* Specification SpecApp: a session of the app, one user event per step.   *)

AppInit ==
    /\ pc = "app"
    /\ \E use_ollama \in BOOLEAN : app = SessionInit(use_ollama)
    /\ calls = {}
    /\ document = <<>>
    /\ chunks = <<>>
    /\ idx = 0
    /\ best_score = 0
    /\ best_answer = NoAnswer
    /\ qa_log = <<>>
    /\ hl = NoCall /\ ev = NoCall /\ aq = NoCall /\ oq = NoCall /\ gq = NoCall

\* The session with the capability log, at the start of the event `event`.
World(event) ==
    [k \in DOMAIN app \cup {"calls"} |->
        IF k = "calls" THEN calls
        ELSE IF k = "event" THEN event
        ELSE IF k = "evaluated" THEN <<>>
        ELSE app[k]]

Commit(w) ==
    /\ app' = [k \in DOMAIN w \ {"calls"} |-> w[k]]
    /\ calls' = w.calls
    /\ UNCHANGED <<pc, document, chunks, idx, best_score, best_answer, qa_log, hl, ev,
                   aq, oq, gq>>

\* One run of the script from top to bottom with no button pressed, the
\* browser holding the texts `held` in the text areas.
Run(w, held) ==
    \E summary_ok \in SummaryOutcomes(w) :
        LET w1 == ProcessDocument(w, summary_ok)
        IN  \E returned \in Returned(w1, held) : Commit(RenderQuestions(w1, returned))

\* The user puts a file into the uploader (line 121).  Explored while no
\* document text is held: with a text held, line 128 skips the processing
\* and the run only displays again.
App_Upload ==
    /\ app.document_text = <<>>
    /\ \E f \in Files :
          Run([World("upload") EXCEPT !.uploaded_file = f], <<>>)

\* The user sends a chat prompt (lines 178-278).
App_Chat ==
    /\ Len(app.messages) < 2 * MaxChats
    /\ \E prompt \in Prompts, summary_ok \in SummaryOutcomes(World("chat")) :
          LET w1 == ProcessDocument(World("chat"), summary_ok)
          IN  \E outcome \in AskOutcomes(w1) :
                 Run(Chat(w1, prompt, outcome), Held(w1))

\* The user presses Generate Challenge Questions (lines 283-298).
App_Generate ==
    /\ app.document_text # <<>>
    /\ \E gens \in AppGenerationVectors(app.document_text) :
          Run(Generate(World("generate"), gens), Held(World("generate")))

\* The user types `text` into the text area of question i (lines 327-335).
App_Edit ==
    /\ Shown(World("edit"))
    /\ ~Disabled(World("edit"))
    /\ \E i \in Indices(World("edit")), text \in AppAnswers :
          /\ text # app.user_answers[i].answer
          /\ Run(World("edit"), [Held(World("edit")) EXCEPT ![i] = text])

\* The user presses Submit All Answers (lines 355-377).
App_Submit ==
    /\ Shown(World("submit"))
    /\ ~app.show_results
    /\ LET w1 == RenderQuestions(World("submit"), Held(World("submit")))
           w2 == Submit(w1)
       IN  IF AllAnswered(w1.user_answers) THEN Run(w2, Held(w1)) ELSE Commit(w2)

\* The user presses Reset Answers (lines 379-382).
App_Reset ==
    /\ Shown(World("reset"))
    /\ ~app.show_results
    /\ LET w1 == RenderQuestions(World("reset"), Held(World("reset")))
       IN  Run(Reset(w1), Held(w1))

\* The user presses Try Again with New Questions (lines 383-387).
App_TryAgain ==
    /\ Shown(World("try_again"))
    /\ app.show_results
    /\ LET w1 == RenderQuestions(World("try_again"), Held(World("try_again")))
       IN  Run(TryAgain(w1), Held(w1))

AppNext ==
    \/ App_Upload \/ App_Chat \/ App_Generate \/ App_Edit
    \/ App_Submit \/ App_Reset \/ App_TryAgain

SpecApp == AppInit /\ [][AppNext]_vars

---------------------------------------------------------------------------
(* Claims about extract_context, checked under SpecChunk.                  *)

\* C1 (as claimed, for the documents that have at least one word): a
\* document of at most chunk_size words yields exactly one chunk, and for a
\* document whose words are separated by single spaces that chunk has
\* start = 0 and end = len(document).
C1_OneChunkSpansDocument ==
    (pc = "chunk_done" /\ Len(Split(document)) \in 1..chunk_size)
        => /\ Len(chunks) = 1
           /\ IsSingleSpaced(document)
                => (chunks[1].start = 0 /\ chunks[1].end = Len(document))

\* C2 (as claimed): every chunk has 0 <= start <= end <= len(document).
C2_ChunkOffsetsInDocument ==
    pc = "chunk_done"
        => \A k \in 1..Len(chunks) :
              /\ 0 <= chunks[k].start
              /\ chunks[k].start <= chunks[k].end
              /\ chunks[k].end <= Len(document)

\* C3: for every pair of consecutive chunks whose later chunk is not the
\* final one, the last `overlap` words of the earlier chunk are the first
\* `overlap` words of the later chunk, and the later chunk begins exactly
\* `overlap` words before the end of the earlier one (its start offset is
\* the earlier start plus the lengths of all but the last `overlap` words).
C3_ConsecutiveChunksShareOverlap ==
    pc = "chunk_done"
        => \A k \in 1..(Len(chunks) - 2) :
              LET a == Split(chunks[k].text)
                  b == Split(chunks[k + 1].text)
              IN  /\ Len(a) >= overlap
                  /\ Len(b) >= overlap
                  /\ SubSeq(a, Len(a) - overlap + 1, Len(a)) = SubSeq(b, 1, overlap)
                  /\ chunks[k + 1].start - chunks[k].start
                        = SumLenPlusOne(a, 1, Len(a) - overlap)

\* A document of three chunks or more has been chunked.
C3_Witness == pc = "chunk_done" /\ Len(chunks) >= 3


---------------------------------------------------------------------------
(* Claims about find_best_answer, checked under SpecQA.                    *)

\* The chunks whose qa_pipeline call succeeded with a score above 0.
Scoring == {k \in 1..Len(qa_log) : qa_log[k].ok /\ qa_log[k].score > 0}

\* C4: when some chunk's call succeeded with score > 0, the value returned is
\* the result of the earliest chunk among those of maximum score: its answer
\* and score, with that chunk's text as context.
C4_ReturnsEarliestMaximum ==
    (pc = "fba_done" /\ Scoring # {})
        => \E k \in Scoring :
              /\ \A j \in Scoring : qa_log[j].score <= qa_log[k].score
              /\ \A j \in Scoring : qa_log[j].score = qa_log[k].score => k <= j
              /\ best_answer.answer = qa_log[k].answer
              /\ best_answer.score = qa_log[k].score
              /\ best_answer.context = chunks[k].text
              /\ best_answer.start - qa_log[k].start = chunks[k].start

\* Two chunks tie on the maximum score, and a later chunk scored lower.
C4_Witness ==
    /\ pc = "fba_done"
    /\ Len(qa_log) = 3
    /\ qa_log[1].ok /\ qa_log[2].ok /\ qa_log[3].ok
    /\ qa_log[1].score = MaxScore /\ qa_log[2].score = MaxScore
    /\ qa_log[3].score \in 1..(MaxScore - 1)

\* C5: a failing qa_pipeline call leaves best_answer and best_score as they
\* were and the loop goes on to the next chunk; no step of find_best_answer
\* ends it by raising, and when it returns every chunk has had its call.
C5_FailedChunkIsSkipped ==
    [][/\ (pc = "fba_loop" /\ Len(qa_log') = Len(qa_log) + 1
              /\ ~qa_log'[Len(qa_log')].ok)
            => (/\ best_answer' = best_answer
                /\ best_score' = best_score
                /\ pc' = "fba_loop"
                /\ idx' = idx + 1)
       /\ pc' \in {"fba_loop", "fba_done"}
       /\ pc' = "fba_done" => Len(qa_log') = Len(chunks')]_vars

\* A call failed between two calls that succeeded, the first of which had
\* set the best answer, and find_best_answer returned.
C5_Witness ==
    /\ pc = "fba_done"
    /\ Len(qa_log) = 3
    /\ qa_log[1].ok /\ qa_log[1].score > 0
    /\ ~qa_log[2].ok
    /\ qa_log[3].ok

\* C6: when no chunk's call succeeded with score > 0 (no chunk at all, every
\* call failed, or every score was 0) the value returned is the fixed answer
\* with score 0, start 0, end 0 and the empty context.
C6_FallbackAnswer ==
    (pc = "fba_done" /\ Scoring = {})
        => best_answer =
              [answer |-> CouldNotFind, score |-> 0, start |-> 0, end |-> 0,
               context |-> <<>>]

\* Several chunks, one call failed and another returned score 0.
C6_Witness ==
    /\ pc = "fba_done"
    /\ Scoring = {}
    /\ \E j, k \in 1..Len(qa_log) : ~qa_log[j].ok /\ qa_log[k].ok

\* The chunks whose call returned a nonzero score.
Nonzero == {k \in 1..Len(qa_log) : qa_log[k].ok /\ qa_log[k].score # 0}

\* C7: when exactly one chunk returned a nonzero score, the value returned is
\* that chunk's answer with start = chunk.start + local start and
\* end = chunk.start + local end, and in a document whose words are separated
\* by single spaces document[start:end] is the answer.
C7_SingleScorerOffsets ==
    (pc = "fba_done" /\ Cardinality(Nonzero) = 1)
        => \A k \in Nonzero :
              /\ best_answer.answer = qa_log[k].answer
              /\ best_answer.start = chunks[k].start + qa_log[k].start
              /\ best_answer.end = chunks[k].start + qa_log[k].end
              /\ IsSingleSpaced(document)
                    => Slice(document, best_answer.start, best_answer.end)
                          = best_answer.answer

\* The only scoring chunk is a later chunk of a single-spaced document, and
\* the answer is the last character of that chunk.
C7_Witness ==
    /\ pc = "fba_done"
    /\ Nonzero = {2}
    /\ Len(qa_log) = 3
    /\ qa_log[2].start > 0
    /\ chunks[2].start > 0
    /\ IsSingleSpaced(document)


---------------------------------------------------------------------------
(* Claims about highlight_text, checked under SpecHL.                      *)

\* r is `full` without its leading and trailing whitespace: full is a run of
\* whitespace, then r, then a run of whitespace, and r neither begins nor
\* ends with whitespace.
IsTrimOf(r, full) ==
    /\ \E i \in 0..Len(full) :
          /\ i + Len(r) <= Len(full)
          /\ \A k \in 1..Len(r) : r[k] = full[i + k]
          /\ \A k \in 1..i : full[k] \in Whitespace
          /\ \A k \in (i + Len(r) + 1)..Len(full) : full[k] \in Whitespace
    /\ r # <<>> => (r[1] \notin Whitespace /\ r[Len(r)] \notin Whitespace)

\* C8: for 0 <= s <= e <= len(text) and w >= 0 the call returns, and what it
\* returns is text[max(0, s-w) : min(len(text), e+w)] with "..." in front
\* exactly when max(0, s-w) > 0 and "..." behind exactly when
\* min(len(text), e+w) < len(text), the whole then trimmed of leading and
\* trailing whitespace.
C8_HighlightExcerpt ==
    (pc = "hl_done" /\ hl.start <= hl.end /\ hl.end <= Len(hl.text))
        => LET lo == IF hl.start - hl.window > 0 THEN hl.start - hl.window ELSE 0
               hi == IF hl.end + hl.window < Len(hl.text)
                     THEN hl.end + hl.window ELSE Len(hl.text)
               core == [k \in 1..(hi - lo) |-> hl.text[lo + k]]
               full == (IF lo > 0 THEN <<".", ".", ".">> ELSE <<>>) \o core
                       \o (IF hi < Len(hl.text) THEN <<".", ".", ".">> ELSE <<>>)
           IN  /\ hl.state = "done"
               /\ IsTrimOf(hl.result, full)

\* A call whose window starts inside the text and reaches the text's end,
\* where there is whitespace to trim: the excerpt begins with "...", has no
\* "..." behind, and its trailing space is removed.
C8_Witness ==
    /\ pc = "hl_done"
    /\ hl.text = <<"a", "a", "a", " ">>
    /\ hl.start = 2 /\ hl.end = 3 /\ hl.window = 1
    /\ hl.result = <<".", ".", ".", "a", "a">>


---------------------------------------------------------------------------
(* Claims about evaluate_answer, checked under SpecEval.                   *)

\* The maximal runs of non-whitespace of s, as pairs <<first, last>> of
\* positions: a run begins after whitespace (or at the start of s), ends
\* before whitespace (or at the end of s) and contains none.
RunFirsts(s) == {i \in 1..Len(s) : s[i] \notin Whitespace /\ (i = 1 \/ s[i - 1] \in Whitespace)}
RunLasts(s) == {j \in 1..Len(s) : s[j] \notin Whitespace /\ (j = Len(s) \/ s[j + 1] \in Whitespace)}
WordRuns(s) ==
    {r \in RunFirsts(s) \X RunLasts(s) :
        r[1] <= r[2] /\ \A k \in r[1]..r[2] : s[k] \notin Whitespace}

\* The lower-cased whitespace-separated words of s that are longer than 3.
Tokens(s) ==
    {[k \in 1..(r[2] - r[1] + 1) |-> Lower(s[r[1] + k - 1])] :
        r \in {q \in WordRuns(s) : q[2] - q[1] + 1 > 3}}

IsBlank(s) == \A k \in 1..Len(s) : s[k] \in Whitespace

\* C9: for a non-blank answer, is_correct is true exactly when
\* |answerTokens \cap contextTokens| / max(1, |answerTokens|) > 0.5, i.e. when
\* twice the number of matching tokens exceeds max(1, |answerTokens|); so a
\* ratio of exactly 0.5 and an answer without a word longer than 3 characters
\* give false.
C9_CorrectIffRatioAboveHalf ==
    (pc = "ev_done" /\ ~IsBlank(ev.user_answer))
        => LET a == Tokens(ev.user_answer)
               c == Tokens(ev.question_data.context)
               n == IF Cardinality(a) >= 1 THEN Cardinality(a) ELSE 1
           IN  ev.result.is_correct = (2 * Cardinality(a \cap c) > n)

\* An answer with two keywords of which exactly one is in the context
\* (ratio exactly 0.5) has been judged incorrect.
C9_Witness ==
    /\ pc = "ev_done"
    /\ Cardinality(Tokens(ev.user_answer)) = 2
    /\ Cardinality(Tokens(ev.user_answer) \cap Tokens(ev.question_data.context)) = 1
    /\ ev.result.is_correct = FALSE

\* C10: for an empty or whitespace-only answer the result is is_correct =
\* false, feedback "Please provide an answer." and the item's context itself
\* as reference, and no keyword set has been computed.
C10_BlankAnswer ==
    (pc = "ev_done" /\ IsBlank(ev.user_answer))
        => /\ ev.result.is_correct = FALSE
           /\ ev.result.feedback = "Please provide an answer."
           /\ ev.result.reference = ev.question_data.context
           /\ DOMAIN ev.result = {"is_correct", "feedback", "reference"}
           /\ ev.answer_keywords = Unset
           /\ ev.context_keywords = Unset
           /\ ev.matching_keywords = Unset

\* A whitespace-only answer to a question whose context ends in a newline,
\* which the reference keeps.
C10_Witness ==
    /\ pc = "ev_done"
    /\ ev.user_answer = <<"\n", " ">>
    /\ Len(ev.question_data.context) > 1
    /\ ev.question_data.context[Len(ev.question_data.context)] = "\n"
    /\ ev.result.reference = ev.question_data.context

---------------------------------------------------------------------------
(* Claims about ask_question, checked under SpecAsk.                       *)

\* The word "transformer" in either case of each letter, starting after
\* position p of q.
TransformerAt(q, p) ==
    LET lo == <<"t", "r", "a", "n", "s", "f", "o", "r", "m", "e", "r">>
        up == <<"T", "R", "A", "N", "S", "F", "O", "R", "M", "E", "R">>
    IN  \A j \in 1..11 : q[p + j] \in {lo[j], up[j]}
MentionsTransformer(q) == \E p \in 0..(Len(q) - 11) : TransformerAt(q, p)

\* C11: for a non-blank document, a question that contains "transformer" in
\* any letter case gets the canned answer tagged is_comprehensive = true and
\* find_best_answer is not run (no qa_pipeline call on any chunk); a question
\* without it makes get_comprehensive_answer return None and find_best_answer
\* run, with one qa_pipeline call per chunk.
C11_ComprehensiveShortCircuit ==
    (pc = "aq_done" /\ ~IsBlank(document))
        => IF MentionsTransformer(aq.user_question)
           THEN /\ aq.result = ComprehensiveAnswer
                /\ aq.result.is_comprehensive = TRUE
                /\ qa_log = <<>> /\ chunks = <<>> /\ best_answer = NoAnswer
                /\ calls = {}
           ELSE /\ get_comprehensive_answer(document, aq.user_question) = None
                /\ chunks = extract_context(document)
                /\ Len(qa_log) = Len(chunks) /\ Len(qa_log) >= 1
                /\ best_answer # NoAnswer
                /\ aq.result.highlight = best_answer.answer

\* A question that spells the trigger in capitals, inside a sentence, was
\* answered with the canned answer.
C11_Witness ==
    /\ pc = "aq_done" /\ ~IsBlank(document)
    /\ Contains(aq.user_question, <<"T", "R", "A", "N", "S">>)
    /\ Len(aq.user_question) > 11
    /\ aq.result.answer = ComprehensiveAnswer.answer

\* Two texts that differ at most in the case of their ASCII letters.
SameIgnoringCase(s, t) ==
    Len(s) = Len(t) /\ \A k \in 1..Len(s) : Lower(s[k]) = Lower(t[k])

\* The 0-based positions at which answer occurs in context, ignoring case.
Occurrences(context, answer) ==
    {p \in 0..(Len(context) - Len(answer)) :
        SameIgnoringCase(SubSeq(context, p + 1, p + Len(answer)), answer)}

\* A text without the highlight marker's two tags.
Unmarked(s) == SelectSeq(s, LAMBDA c : c \notin {MarkOpen, MarkClose})

\* C15 (as claimed): on the extractive path with a non-empty context, when
\* the answer occurs in the context ignoring case the returned context is the
\* original context with exactly its first occurrence, in the context's own
\* casing, wrapped in the highlight marker; when it does not occur the context
\* is returned as it is; in both cases removing the marker gives the original
\* context back.
C15_FirstOccurrenceMarked ==
    (pc = "aq_done" /\ qa_log # <<>> /\ best_answer.context # <<>>)
        => LET context == best_answer.context
               answer == best_answer.answer
               occ == Occurrences(context, answer)
               first == CHOOSE p \in occ : \A q \in occ : p <= q
           IN  /\ Unmarked(aq.result.context) = context
               /\ occ = {} => aq.result.context = context
               /\ occ # {} =>
                    aq.result.context =
                        SubSeq(context, 1, first) \o <<MarkOpen>>
                          \o SubSeq(context, first + 1, first + Len(answer))
                          \o <<MarkClose>>
                          \o SubSeq(context, first + Len(answer) + 1, Len(context))

---------------------------------------------------------------------------
(* Claims about OllamaQA.ask_question, checked under SpecOllama.           *)

\* C13: OllamaQA.ask_question always returns a result: when ollama.generate
\* fails, an error-text answer with confidence 0 and is_comprehensive =
\* false; when it succeeds, a non-empty answer with confidence 90 and
\* is_comprehensive = true.
C13_OllamaNeverRaises ==
    /\ pc \in {"oq_call", "oq_done"}
    /\ pc = "oq_done" =>
         /\ "result" \in DOMAIN oq
         /\ ~oq.outcome.ok =>
              /\ oq.result.answer = <<"Error getting response from Ollama: ">>
              /\ oq.result.confidence = 0
              /\ oq.result.is_comprehensive = FALSE
         /\ oq.outcome.ok =>
              /\ oq.result.answer # <<>>
              /\ oq.result.confidence = 900
              /\ oq.result.is_comprehensive = TRUE

\* The backend returned only whitespace for a document of more than
\* OllamaContextLimit characters, and the method still answered.
C13_Witness ==
    /\ pc = "oq_done" /\ oq.outcome.ok
    /\ IsBlank(oq.outcome.response)
    /\ Len(oq.context) > OllamaContextLimit
    /\ oq.result.answer = EmptyAnswerText

---------------------------------------------------------------------------
(* Claims about the challenge questions, checked under SpecChallenge.      *)

\* C16 (as claimed, for the contexts that hold at least one word): for every
\* question item generate_questions returned, an incorrect verdict of
\* evaluate_answer on a non-blank answer has a reference that contains at
\* least one character of the item's context: the reference is neither empty
\* nor only "...".
C16_ReferenceShowsContext ==
    (pc = "ev_done" /\ gq.state = "done" /\ ~IsBlank(ev.user_answer)
       /\ ~IsBlank(ev.question_data.context) /\ ~ev.result.is_correct)
        => /\ ev.result.reference # <<>>
           /\ ev.result.reference # Ellipsis
           /\ ev.result.reference # Ellipsis \o Ellipsis

---------------------------------------------------------------------------
(* Claims about the app, checked under SpecApp.                            *)

\* C12 (as claimed): no external model capability (extractive QA,
\* generative backend, summarizer, question generator) is ever invoked for a
\* document that is empty or only whitespace, and a chat question about such
\* a document is answered with the fixed "No document text provided."
C12_BlankDocumentInvokesNothing ==
    /\ \A c \in calls : ~IsBlank(c.document)
    /\ (app.event = "chat" /\ IsBlank(app.document_text))
         => app.messages[Len(app.messages)].content.answer = NoDocumentResult.answer

\* C14: a Submit All Answers step in which every answer is non-blank calls
\* evaluate_answer once per question, in order, stores its verdict in every
\* record and sets show_results; a submit with a blank answer evaluates
\* nothing, changes no evaluation and leaves show_results false; and no
\* event other than a submit, Reset Answers or Generate Challenge Questions
\* evaluates anything or changes an evaluation that was set.
C14_EvaluatedOncePerSubmit ==
    [][ LET ua == app.user_answers
            after == app'.user_answers
            kept == \A i \in DOMAIN ua :
                       ua[i].evaluation # None
                         => (i \in DOMAIN after /\ after[i].evaluation = ua[i].evaluation)
        IN  /\ app'.event = "submit" =>
                 IF \A i \in DOMAIN ua : ~IsBlank(ua[i].answer)
                 THEN /\ app'.show_results
                      /\ app'.evaluated = [k \in 1..Len(app.questions) |-> k - 1]
                      /\ \A i \in Indices(app) :
                            LET verdict == evaluate_answer(app.questions[i + 1], ua[i].answer)
                            IN  /\ after[i].evaluation # None
                                /\ after[i].evaluation.is_correct = verdict.is_correct
                                /\ after[i].evaluation.reference = verdict.reference
                                /\ after[i].answer = ua[i].answer
                 ELSE /\ ~app'.show_results
                      /\ app'.evaluated = <<>>
                      /\ \A i \in DOMAIN ua :
                            i \in DOMAIN after /\ after[i].evaluation = ua[i].evaluation
            /\ app'.event \notin {"submit", "reset", "generate"} =>
                 (app'.evaluated = <<>> /\ kept)
      ]_vars

\* All three fallback questions were answered and one submit evaluated each
\* of them once.
C14_Witness ==
    /\ app.event = "submit" /\ app.show_results
    /\ app.evaluated = <<0, 1, 2>>
    /\ \A i \in 0..2 : app.user_answers[i].evaluation # None

\* C17: whenever show_results is true, every question index has a record
\* whose answer is non-blank and whose evaluation is set.
C17_ResultsImplyAnswered ==
    app.show_results
        => \A i \in Indices(app) :
              /\ i \in DOMAIN app.user_answers
              /\ ~IsBlank(app.user_answers[i].answer)
              /\ app.user_answers[i].evaluation # None

\* The results of a three-question challenge are on screen, and stayed so
\* through a later chat question.
C17_Witness ==
    /\ app.show_results /\ Len(app.questions) = 3
    /\ app.event = "chat"
    /\ \E i \in Indices(app) : ~app.user_answers[i].evaluation.is_correct

=============================================================================
